---- MODULE Spec2Model ----
(***************************************************************************)
(* MeloTTS-API: the request-handling contract of main.py / models.py /     *)
(* config.py as a state machine.                                           *)
(*                                                                         *)
(* Text is kept run-length encoded: a sequence of runs [ws, n], ws = TRUE  *)
(* for a run of n whitespace characters, FALSE for n other characters.     *)
(* len() and str.strip() are computed on that encoding, so the real length *)
(* limits (1000) are kept.  Speeds are in hundredths (0.5 = 50).           *)
(* Speaker identifiers are sequences of one-character strings.             *)
(***************************************************************************)
EXTENDS Integers, Sequences, FiniteSets, TLC

\* ---------------------------------------------------------------- bounds
MaxReqs == 2          \* request slots (requests in flight at once)
MaxWorkersCfg == 2    \* largest MAX_WORKERS value tried
WavBytes == 44        \* size of the WAV the model writes on success
Mp3Bytes == 10        \* size of the MP3 the codec writes on success

\* ------------------------------------------------------ program constants
FieldMinLength == 1       \* models.py: Field(min_length=1)
FieldMaxLength == 1000    \* models.py: Field(max_length=1000)
SpeedMin == 50            \* models.py: ge=0.5
SpeedMax == 200           \* models.py: le=2.0
DefaultMaxTextLength == 1000   \* config.py: MAX_TEXT_LENGTH default

HTTP_200 == 200
HTTP_400 == 400
HTTP_422 == 422
HTTP_500 == 500
HTTP_503 == 503

\* ------------------------------------------------------- text (str) model
Ws(n) == [ws |-> TRUE, n |-> n]
Ch(n) == [ws |-> FALSE, n |-> n]

RECURSIVE TextLen(_)
TextLen(t) == IF t = <<>> THEN 0 ELSE Head(t).n + TextLen(Tail(t))

RECURSIVE LStrip(_)
LStrip(t) == IF t = <<>> THEN <<>>
             ELSE IF Head(t).ws THEN LStrip(Tail(t)) ELSE t

RECURSIVE RStrip(_)
RStrip(t) == IF t = <<>> THEN <<>>
             ELSE IF t[Len(t)].ws THEN RStrip(SubSeq(t, 1, Len(t) - 1)) ELSE t

\* str.strip()
Strip(t) == RStrip(LStrip(t))

\* text[:30] is only logged; nothing else reads the characters.

\* ------------------------------------------------------ speaker identifiers
EN_US == <<"E", "N", "-", "U", "S">>
EN_AU == <<"E", "N", "-", "A", "U">>
JP == <<"J", "P">>
INVALID_SPEAKER == <<"I", "N", "V", "A", "L", "I", "D", "-", "S", "P", "E", "A", "K", "E", "R">>

EN == <<"E", "N">>
EN_INDIA == <<"E", "N", "_", "I", "N", "D", "I", "A">>
ZH_MIX_EN == <<"Z", "H", "-", "M", "I", "X", "-", "E", "N">>
DASH_X == <<"-", "X">>

\* tts_model.hps.data.spk2id.keys() of the loaded model, in order
Spk2IdKeys == <<EN_US, EN_AU, JP>>

\* voice catalogs a loaded model may expose (dict keys: no duplicates)
Catalogs == {
    Spk2IdKeys,
    <<EN_US, JP, EN_AU>>,
    <<JP, EN, EN_US, EN_INDIA>>,
    <<ZH_MIX_EN, DASH_X, EN_US>>,
    <<EN_US>>
}

SeqRange(s) == {s[i] : i \in 1..Len(s)}

\* ------------------------------------------------------------- settings
ConfiguredMaxLengths == {500, DefaultMaxTextLength, 2000}
\* the smallest pool and the largest one tried
ConfiguredWorkers == {1, MaxWorkersCfg}

\* ----------------------------------------------------------------- state
VARIABLES
    settings,           \* config.settings: MAX_WORKERS, MAX_TEXT_LENGTH
    phase,              \* position of lifespan()
    raised,             \* lifespan() re-raised a load failure
    tts_model,          \* global tts_model: None, or the TTS with its spk2id keys
    speakers,           \* global speakers
    model_ready,        \* global model_ready
    startup_time,       \* global startup_time: "None" or "set"
    executor_shutdown,  \* executor._shutdown
    queue,              \* executor work queue (request slots, FIFO)
    reqs                \* request slots: handler + worker task state

vars == <<settings, phase, raised, tts_model, speakers, model_ready,
          startup_time, executor_shutdown, queue, reqs>>

lifeVars == <<phase, raised, tts_model, speakers, model_ready,
              startup_time, executor_shutdown>>

Slots == 1..MaxReqs

None == [loaded |-> FALSE, spk2id |-> <<>>]
TTS(catalog) == [loaded |-> TRUE, spk2id |-> catalog]

NoOutcome == [kind |-> "none", cls |-> "", msg |-> "", len |-> 0, pos |-> 0]
NoHealth == [status |-> "", speakers_loaded |-> FALSE, model_ready |-> FALSE,
             available_speakers |-> 0]
NoResp == [status |-> 0, detail |-> "", media_type |-> "", body_len |-> 0,
           format |-> "", speaker |-> <<>>, speed |-> 0,
           health |-> NoHealth, speakers |-> <<>>, total |-> 0,
           languages |-> <<>>, max_text_length |-> 0]
NoPayload == [text |-> <<>>, speaker |-> <<>>, speed |-> 0]

IdleReq == [pc |-> "idle", endpoint |-> "", raw |-> NoPayload, text |-> <<>>,
            svc |-> "", submitted |-> FALSE, called |-> FALSE,
            outcome |-> NoOutcome, resp |-> NoResp]

\* ------------------------------------------------------------------ Init
Init ==
    /\ settings \in [MAX_WORKERS : ConfiguredWorkers,
                      MAX_TEXT_LENGTH : ConfiguredMaxLengths]
    /\ phase = "unloaded"
    /\ raised = FALSE
    /\ tts_model = None
    /\ speakers = <<>>
    /\ model_ready = FALSE
    /\ startup_time = "None"
    /\ executor_shutdown = FALSE
    /\ queue = <<>>
    /\ reqs = [r \in Slots |-> IdleReq]

\* ------------------------------------------------------------- lifespan()
\* line 54: startup_time = time.time()
Startup ==
    /\ phase = "unloaded"
    /\ phase' = "loading"
    /\ startup_time' = "set"
    /\ UNCHANGED <<settings, raised, tts_model, speakers, model_ready,
                   executor_shutdown, queue, reqs>>

\* variant: the flag is set as soon as the model object exists
LoadModelSetsReady(catalog) ==
    /\ phase = "loading"
    /\ phase' = "constructed"
    /\ tts_model' = TTS(catalog)
    /\ model_ready' = TRUE
    /\ UNCHANGED <<settings, raised, speakers, startup_time,
                   executor_shutdown, queue, reqs>>

\* line 62: tts_model = TTS(...) returns
LoadModel(catalog) ==
    /\ phase = "loading"
    /\ phase' = "constructed"
    /\ tts_model' = TTS(catalog)
    /\ UNCHANGED <<settings, raised, speakers, model_ready, startup_time,
                   executor_shutdown, queue, reqs>>

\* line 62: TTS(...) raises
LoadFail ==
    /\ phase = "loading"
    /\ phase' = "except"
    /\ UNCHANGED <<settings, raised, tts_model, speakers, model_ready,
                   startup_time, executor_shutdown, queue, reqs>>

\* line 63: speakers = list(tts_model.hps.data.spk2id.keys())
EnumerateSpeakers ==
    /\ phase = "constructed"
    /\ phase' = "enumerated"
    /\ speakers' = tts_model.spk2id
    /\ UNCHANGED <<settings, raised, tts_model, model_ready, startup_time,
                   executor_shutdown, queue, reqs>>

\* line 64: model_ready = True; then the generator is suspended at yield
SetReady ==
    /\ phase = "enumerated"
    /\ phase' = "ready"
    /\ model_ready' = TRUE
    /\ UNCHANGED <<settings, raised, tts_model, speakers, startup_time,
                   executor_shutdown, queue, reqs>>

\* variant: the failure is logged and the load is tried again
ExceptHandlerRetry ==
    /\ phase = "except"
    /\ phase' = "loading"
    /\ model_ready' = FALSE
    /\ raised' = TRUE
    /\ UNCHANGED <<settings, tts_model, speakers, startup_time,
                   executor_shutdown, queue, reqs>>

\* lines 72-75: except Exception: model_ready = False; raise
ExceptHandler ==
    /\ phase = "except"
    /\ phase' = "finally"
    /\ model_ready' = FALSE
    /\ raised' = TRUE
    /\ UNCHANGED <<settings, tts_model, speakers, startup_time,
                   executor_shutdown, queue, reqs>>

\* variant: the flag is cleared when shutdown starts
ShutdownSignalClearsReady ==
    /\ phase = "ready"
    /\ phase' = "finally"
    /\ model_ready' = FALSE
    /\ UNCHANGED <<settings, raised, tts_model, speakers,
                   startup_time, executor_shutdown, queue, reqs>>

\* line 70 -> 76: the generator is resumed at shutdown
ShutdownSignal ==
    /\ phase = "ready"
    /\ phase' = "finally"
    /\ UNCHANGED <<settings, raised, tts_model, speakers, model_ready,
                   startup_time, executor_shutdown, queue, reqs>>

\* line 78: executor.shutdown(wait=True) sets the pool's shutdown flag
ExecutorShutdown ==
    /\ phase = "finally"
    /\ phase' = "draining"
    /\ executor_shutdown' = TRUE
    /\ UNCHANGED <<settings, raised, tts_model, speakers, model_ready,
                   startup_time, queue, reqs>>

Running(r) == reqs[r].pc \in {"running", "checked", "in_model", "codec"}
NumRunning == Cardinality({r \in Slots : Running(r)})

\* variant: shutdown(wait=False), the pool is not waited for
ShutdownCompleteNoWait ==
    /\ phase = "draining"
    /\ phase' = "stopped"
    /\ UNCHANGED <<settings, raised, tts_model, speakers, model_ready,
                   startup_time, executor_shutdown, queue, reqs>>

\* line 78: shutdown(wait=True) returns once every worker thread has exited
ShutdownComplete ==
    /\ phase = "draining"
    /\ queue = <<>>
    /\ NumRunning = 0
    /\ phase' = "stopped"
    /\ UNCHANGED <<settings, raised, tts_model, speakers, model_ready,
                   startup_time, executor_shutdown, queue, reqs>>

\* the event loop is blocked while lifespan() sits in shutdown(wait=True)
LoopFree == phase # "draining"

\* ------------------------------------------------------ models.TTSRequest
\* variant: the length constraints applied to the trimmed text
TextFieldOkTrimmed(t) ==
    FieldMinLength <= TextLen(Strip(t)) /\ TextLen(Strip(t)) <= FieldMaxLength

\* Field(min_length=1, max_length=1000): checked on the text as received
TextFieldOk(t) == FieldMinLength <= TextLen(t) /\ TextLen(t) <= FieldMaxLength

\* variant: "if not v" instead of "if not v.strip()"
validate_text_ok_unstripped(t) == t # <<>>

\* @validator('text'): "if not v.strip(): raise ValueError"
validate_text_ok(t) == Strip(t) # <<>>

\* variant: exclusive bounds
validate_speed_ok_exclusive(v) == SpeedMin < v /\ v < SpeedMax

\* Field(ge=0.5, le=2.0) and @validator('speed'): 0.5 <= v <= 2.0
validate_speed_ok(v) == SpeedMin <= v /\ v <= SpeedMax

\* variant: speed is not validated
RequestValidNoSpeed(p) ==
    /\ TextFieldOk(p.text)
    /\ validate_text_ok(p.text)

\* The field constraints run first, the validators on what passed them.
RequestValid(p) ==
    /\ TextFieldOk(p.text)
    /\ validate_text_ok(p.text)
    /\ validate_speed_ok(p.speed)

\* The validated model: validate_text returns v.strip()
TTSRequest(p) == [text |-> Strip(p.text), speaker |-> p.speaker, speed |-> p.speed]

\* ------------------------------------------------------------ responses
ErrResp(code, detail) == [NoResp EXCEPT !.status = code, !.detail = detail]

ModelNotReadyDetail == "Model is not ready yet"
SynthesisFailedDetail == "Synthesis failed"
ValidationDetail == "validation error"

\* The slot fields svc, submitted and called record, for the response's
\* request: the service state on arrival, whether a task was handed to the
\* executor, and whether tts_to_file was invoked.
\* what the handler sees of the service when the request arrives
SvcState == IF ~model_ready THEN "not_ready"
            ELSE IF executor_shutdown THEN "closed" ELSE "ready"

\* variant: the handlers do not consult the flag
HandlerNotReadySkipped == FALSE

\* synthesize line 164, synthesize_base64 line 196: if not model_ready
HandlerNotReady == ~model_ready

LowestIdle(r) == /\ reqs[r].pc = "idle"
                 /\ \A q \in Slots : q < r => reqs[q].pc # "idle"

\* ------------------------------- POST /tts, POST /synthesize: up to the await
\* Body validation (422), the readiness check (503) and run_in_executor run
\* on the event loop without suspension.  submit() on a pool that has been
\* shut down raises RuntimeError, which the handler's except Exception
\* turns into 500.
Post(r, ep, p) ==
    /\ LoopFree
    /\ LowestIdle(r)
    /\ LET base == [IdleReq EXCEPT !.endpoint = ep, !.raw = p, !.svc = SvcState]
       IN  IF ~RequestValid(p)
           THEN /\ reqs' = [reqs EXCEPT ![r] =
                        [base EXCEPT !.pc = "done",
                                     !.resp = ErrResp(HTTP_422, ValidationDetail)]]
                /\ queue' = queue
           ELSE IF HandlerNotReady
           THEN /\ reqs' = [reqs EXCEPT ![r] =
                        [base EXCEPT !.pc = "done",
                                     !.text = TTSRequest(p).text,
                                     !.resp = ErrResp(HTTP_503, ModelNotReadyDetail)]]
                /\ queue' = queue
           ELSE IF executor_shutdown
           THEN /\ reqs' = [reqs EXCEPT ![r] =
                        [base EXCEPT !.pc = "done",
                                     !.text = TTSRequest(p).text,
                                     !.resp = ErrResp(HTTP_500, SynthesisFailedDetail)]]
                /\ queue' = queue
           ELSE /\ reqs' = [reqs EXCEPT ![r] =
                        [base EXCEPT !.pc = "queued",
                                     !.text = TTSRequest(p).text,
                                     !.submitted = TRUE]]
                /\ queue' = Append(queue, r)
    /\ UNCHANGED <<settings, lifeVars>>

\* variant: a thread is started for every work item
WorkerStartUnbounded(r) ==
    /\ reqs[r].pc = "queued"
    /\ queue # <<>> /\ Head(queue) = r
    /\ queue' = Tail(queue)
    /\ reqs' = [reqs EXCEPT ![r].pc = "running"]
    /\ UNCHANGED <<settings, lifeVars>>

\* --------------------------------------------------------- worker threads
\* A pool thread takes the oldest work item; the pool has at most
\* MAX_WORKERS threads.  The task starts generate_wav_audio, directly
\* (/tts) or through generate_base64_mp3 (/synthesize).
WorkerStart(r) ==
    /\ reqs[r].pc = "queued"
    /\ queue # <<>> /\ Head(queue) = r
    /\ NumRunning < settings.MAX_WORKERS
    /\ queue' = Tail(queue)
    /\ reqs' = [reqs EXCEPT ![r].pc = "running"]
    /\ UNCHANGED <<settings, lifeVars>>

Exc(cls, msg) == [NoOutcome EXCEPT !.kind = "exc", !.cls = cls, !.msg = msg]

\* generate_wav_audio line 135: if not model_ready: raise RuntimeError
CheckReady(r) ==
    /\ reqs[r].pc = "running"
    /\ reqs' = [reqs EXCEPT ![r] =
            IF ~model_ready
            THEN [@ EXCEPT !.pc = "finished",
                           !.outcome = Exc("RuntimeError", "Model is not ready")]
            ELSE [@ EXCEPT !.pc = "checked"]]
    /\ UNCHANGED <<settings, lifeVars, queue>>

\* generate_wav_audio lines 138-145: the speaker and length checks, then the
\* call of tts_model.tts_to_file
CheckArgs(r) ==
    /\ reqs[r].pc = "checked"
    /\ reqs' = [reqs EXCEPT ![r] =
            IF tts_model = None
            THEN [@ EXCEPT !.pc = "finished",
                           !.outcome = Exc("AttributeError", "NoneType has no attribute hps")]
            ELSE IF reqs[r].raw.speaker \notin SeqRange(tts_model.spk2id)
            THEN [@ EXCEPT !.pc = "finished",
                           !.outcome = Exc("ValueError", "Speaker not found")]
            ELSE IF TextLen(reqs[r].text) > settings.MAX_TEXT_LENGTH
            THEN [@ EXCEPT !.pc = "finished",
                           !.outcome = Exc("ValueError", "Text too long")]
            ELSE [@ EXCEPT !.pc = "in_model", !.called = TRUE]]
    /\ UNCHANGED <<settings, lifeVars, queue>>

\* ------------------------------------------------------------ io.BytesIO
BytesIOWrite(n) == [len |-> n, pos |-> n]
Seek0(b) == [b EXCEPT !.pos = 0]
\* read() / iteration deliver what lies after the position
ReadAll(b) == b.len - b.pos

\* base64.b64encode(...).decode(): 4 characters per 3 bytes, padded
B64Len(n) == 4 * ((n + 2) \div 3)

\* exceptions the external model or codec may raise: what matters to the
\* handlers is whether the class is a ValueError
ExternalExcClasses == {"ValueError", "RuntimeError"}
ModelExcMsg == "tts_to_file: internal detail"
CodecExcMsg == "pydub: internal detail"

\* variant: audio_io.seek(0) is missing
WavResultNoSeek == BytesIOWrite(WavBytes)

\* lines 144-147: the buffer generate_wav_audio returns
WavResult == Seek0(BytesIOWrite(WavBytes))

\* lines 155-158: the string generate_base64_mp3 returns
Mp3Result == B64Len(ReadAll(Seek0(BytesIOWrite(Mp3Bytes))))

Buf(kind, b) == [NoOutcome EXCEPT !.kind = kind, !.len = b.len, !.pos = b.pos]

\* line 145 returns or raises; lines 146-147
ModelReturn(r) ==
    /\ reqs[r].pc = "in_model"
    /\ \/ reqs' = [reqs EXCEPT ![r] =
              [@ EXCEPT !.pc = IF reqs[r].endpoint = "tts" THEN "finished" ELSE "codec",
                        !.outcome = Buf("wav", WavResult)]]
       \/ \E cls \in ExternalExcClasses :
              reqs' = [reqs EXCEPT ![r] =
                  [@ EXCEPT !.pc = "finished", !.outcome = Exc(cls, ModelExcMsg)]]
    /\ UNCHANGED <<settings, lifeVars, queue>>

\* generate_base64_mp3 lines 154-158: decode the WAV, export MP3, base64
Codec(r) ==
    /\ reqs[r].pc = "codec"
    /\ \/ reqs' = [reqs EXCEPT ![r] =
              IF ReadAll(reqs[r].outcome) = 0
              THEN [@ EXCEPT !.pc = "finished",
                             !.outcome = Exc("CouldntDecodeError", CodecExcMsg)]
              ELSE [@ EXCEPT !.pc = "finished",
                             !.outcome = [NoOutcome EXCEPT !.kind = "b64",
                                                           !.len = Mp3Result]]]
       \/ \E cls \in ExternalExcClasses :
              reqs' = [reqs EXCEPT ![r] =
                  [@ EXCEPT !.pc = "finished", !.outcome = Exc(cls, CodecExcMsg)]]
    /\ UNCHANGED <<settings, lifeVars, queue>>

\* variant: no "except ValueError" clause
HandlerResponseNoValueError(q) ==
    IF q.outcome.kind = "exc"
    THEN ErrResp(HTTP_500, SynthesisFailedDetail)
    ELSE IF q.endpoint = "tts"
    THEN [NoResp EXCEPT !.status = HTTP_200, !.media_type = "audio/wav",
                        !.body_len = ReadAll(q.outcome),
                        !.speaker = q.raw.speaker]
    ELSE [NoResp EXCEPT !.status = HTTP_200, !.media_type = "application/json",
                        !.body_len = q.outcome.len,
                        !.format = "mp3",
                        !.speaker = q.raw.speaker,
                        !.speed = q.raw.speed]

\* ------------------------------------ the handlers after the await returns
\* synthesize lines 179-190, synthesize_base64 lines 212-222
HandlerResponse(q) ==
    IF q.outcome.kind = "exc"
    THEN IF q.outcome.cls = "ValueError"
         THEN ErrResp(HTTP_400, q.outcome.msg)
         ELSE ErrResp(HTTP_500, SynthesisFailedDetail)
    ELSE IF q.endpoint = "tts"
    THEN [NoResp EXCEPT !.status = HTTP_200, !.media_type = "audio/wav",
                        !.body_len = ReadAll(q.outcome),
                        !.speaker = q.raw.speaker]
    ELSE [NoResp EXCEPT !.status = HTTP_200, !.media_type = "application/json",
                        !.body_len = q.outcome.len,
                        !.format = "mp3",
                        !.speaker = q.raw.speaker,
                        !.speed = q.raw.speed]

Resume(r) ==
    /\ LoopFree
    /\ reqs[r].pc = "finished"
    /\ reqs' = [reqs EXCEPT ![r] =
            [@ EXCEPT !.pc = "done", !.resp = HandlerResponse(reqs[r])]]
    /\ UNCHANGED <<settings, lifeVars, queue>>

\* the response has been sent; the slot serves the next request
Clear(r) ==
    /\ reqs[r].pc = "done"
    /\ reqs' = [reqs EXCEPT ![r] = IdleReq]
    /\ UNCHANGED <<settings, lifeVars, queue>>

\* ------------------------------------------------------------ GET handlers
\* speaker.split('-')[0] if '-' in speaker else speaker
RECURSIVE LangPrefix(_)
LangPrefix(s) == IF s = <<>> \/ Head(s) = "-" THEN <<>>
                 ELSE <<Head(s)>> \o LangPrefix(Tail(s))

\* variant: "language_groups[lang] = [speaker]" instead of append
RECURSIVE GroupUpToOverwrite(_, _)
GroupUpToOverwrite(spk, n) ==
    IF n = 0 THEN <<>>
    ELSE LET g == GroupUpToOverwrite(spk, n - 1)
             lang == LangPrefix(spk[n])
         IN  IF \E i \in 1..Len(g) : g[i].lang = lang
             THEN [i \in 1..Len(g) |->
                      IF g[i].lang = lang
                      THEN [g[i] EXCEPT !.members = <<spk[n]>>]
                      ELSE g[i]]
             ELSE Append(g, [lang |-> lang, members |-> <<spk[n]>>])

\* language_groups after the loop over the first n speakers; the dict is a
\* sequence of [lang, members] in insertion order
RECURSIVE GroupUpTo(_, _)
GroupUpTo(spk, n) ==
    IF n = 0 THEN <<>>
    ELSE LET g == GroupUpTo(spk, n - 1)
             lang == LangPrefix(spk[n])
         IN  IF \E i \in 1..Len(g) : g[i].lang = lang
             THEN [i \in 1..Len(g) |->
                      IF g[i].lang = lang
                      THEN [g[i] EXCEPT !.members = Append(@, spk[n])]
                      ELSE g[i]]
             ELSE Append(g, [lang |-> lang, members |-> <<spk[n]>>])

LanguageGroups(spk) == GroupUpTo(spk, Len(spk))

GetReq(path) == [IdleReq EXCEPT !.pc = "done", !.endpoint = path, !.svc = SvcState]

\* GET /
root(r) ==
    /\ LoopFree
    /\ LowestIdle(r)
    /\ reqs' = [reqs EXCEPT ![r] =
          [GetReq("/") EXCEPT !.resp =
              [NoResp EXCEPT !.status = HTTP_200,
                             !.max_text_length = settings.MAX_TEXT_LENGTH]]]
    /\ UNCHANGED <<settings, lifeVars, queue>>

\* GET /health
health_check(r) ==
    /\ LoopFree
    /\ LowestIdle(r)
    /\ reqs' = [reqs EXCEPT ![r] =
          [GetReq("/health") EXCEPT !.resp =
              [NoResp EXCEPT
                  !.status = HTTP_200,
                  !.health = [status |-> IF model_ready THEN "ok" ELSE "loading",
                              speakers_loaded |-> Len(speakers) > 0,
                              model_ready |-> model_ready,
                              available_speakers |-> Len(speakers)]]]]
    /\ UNCHANGED <<settings, lifeVars, queue>>

\* GET /speakers
get_speakers(r) ==
    /\ LoopFree
    /\ LowestIdle(r)
    /\ reqs' = [reqs EXCEPT ![r] =
          [GetReq("/speakers") EXCEPT !.resp =
              IF ~model_ready
              THEN ErrResp(HTTP_503, ModelNotReadyDetail)
              ELSE [NoResp EXCEPT !.status = HTTP_200,
                                  !.speakers = speakers,
                                  !.total = Len(speakers),
                                  !.languages = LanguageGroups(speakers)]]]
    /\ UNCHANGED <<settings, lifeVars, queue>>

\* ------------------------------------------------------- request inputs
Texts == {
    <<>>,                          \* ""
    <<Ws(3)>>,                     \* whitespace only
    <<Ch(5), Ws(1), Ch(5)>>,       \* "Hello world"
    <<Ws(1), Ch(5), Ws(2)>>,       \* padded
    <<Ch(700)>>,
    <<Ch(FieldMaxLength)>>,
    <<Ch(FieldMaxLength + 1)>>,
    <<Ws(1), Ch(FieldMaxLength - 1), Ws(1)>>,   \* 1001 as received, 999 trimmed
    <<Ch(1500)>>
}
Speeds == {SpeedMin - 1, SpeedMin, 100, SpeedMax, SpeedMax + 1, 300}
RequestSpeakers == {EN_US, JP, INVALID_SPEAKER}
Endpoints == {"tts", "synthesize"}

Payloads == [text : Texts, speaker : RequestSpeakers, speed : Speeds]

\* the payloads of the tests: the valid one and the invalid speaker
CommonPayloads == [text : {<<Ch(5), Ws(1), Ch(5)>>},
                   speaker : {EN_US, INVALID_SPEAKER},
                   speed : {100}]

\* ------------------------------------------------------------ lifecycle
LifespanOf(catalogs) ==
    \/ Startup
    \/ \E c \in catalogs : LoadModel(c)
    \/ LoadFail
    \/ EnumerateSpeakers
    \/ SetReady
    \/ ExceptHandler
    \/ ShutdownSignal
    \/ ExecutorShutdown
    \/ ShutdownComplete

\* the model of the tests and of the scenario
Lifespan == LifespanOf({Spk2IdKeys})

Workers ==
    \E r \in Slots :
        \/ WorkerStart(r)
        \/ CheckReady(r)
        \/ CheckArgs(r)
        \/ ModelReturn(r)
        \/ Codec(r)
        \/ Resume(r)
        \/ Clear(r)

Gets(r) == root(r) \/ health_check(r) \/ get_speakers(r)

\* Concurrent requests, the payloads of the tests
PostCommon == \E r \in Slots, ep \in Endpoints, p \in CommonPayloads : Post(r, ep, p)

GetCommon == \E r \in Slots : Gets(r)

Next == Lifespan \/ Workers \/ GetCommon \/ PostCommon

\* the default MAX_TEXT_LENGTH: the tests' payloads are far below any limit
InitCommon ==
    /\ Init
    /\ settings.MAX_TEXT_LENGTH = DefaultMaxTextLength

Spec == InitCommon /\ [][Next]_vars

\* One request at a time, every payload
InitRequests ==
    /\ Init
    /\ settings.MAX_WORKERS = 1

PostCommon1 == \E ep \in Endpoints, p \in CommonPayloads : Post(1, ep, p)

PostAny == \E ep \in Endpoints, p \in Payloads : Post(1, ep, p)

NextRequests == Lifespan \/ Workers \/ Gets(1) \/ PostAny

SpecRequests == InitRequests /\ [][NextRequests]_vars

\* One request at a time, the payloads of the tests, every voice catalog
NextCatalogs == LifespanOf(Catalogs) \/ Workers \/ Gets(1) \/ PostCommon1

SpecCatalogs == InitRequests /\ [][NextCatalogs]_vars

\* Scheduling: a pool thread that can take or continue a task does so, the
\* external calls return, the event loop resumes a handler whose future is
\* done, and shutdown(wait=True) returns once the pool is empty.
TaskStep(r) ==
    \/ WorkerStart(r)
    \/ CheckReady(r)
    \/ CheckArgs(r)
    \/ ModelReturn(r)
    \/ Codec(r)
    \/ Resume(r)

Fairness ==
    /\ \A r \in Slots : WF_vars(TaskStep(r))
    /\ WF_vars(ShutdownComplete)

\* Concurrent POSTs of the tests' valid payload to both endpoints
PoolPayloads == [text : {<<Ch(5), Ws(1), Ch(5)>>}, speaker : {EN_US}, speed : {100}]

PostPool == \E r \in Slots, ep \in Endpoints, p \in PoolPayloads : Post(r, ep, p)

NextPool == Lifespan \/ Workers \/ PostPool

FairSpec == InitCommon /\ [][NextPool]_vars /\ Fairness

\* ====================================================== properties
Done(r) == reqs[r].pc = "done"
IsPost(q) == q.endpoint \in {"tts", "synthesize"}

\* empty, or whitespace only
Blank(t) == \A i \in 1..Len(t) : t[i].ws

\* the request-body rules as the API documents them: text of 1..1000
\* characters as received, not blank, speed within [0.5, 2.0]
SpeedInBounds(v) == 50 <= v /\ v <= 200
WellFormed(p) ==
    /\ 1 <= TextLen(p.text) /\ TextLen(p.text) <= 1000
    /\ ~Blank(p.text)
    /\ SpeedInBounds(p.speed)

\* the speaker is in the voice registry (the global speakers list)
Registered(spk) == \E i \in 1..Len(speakers) : speakers[i] = spk

\* the model or the codec raised
ExternalFailure(q) ==
    q.outcome.kind = "exc" /\ q.outcome.msg \in {ModelExcMsg, CodecExcMsg}

C2_Original ==
    \A r \in Slots :
        Done(r) /\ reqs[r].svc = "not_ready" =>
            /\ reqs[r].endpoint \in {"/speakers", "tts", "synthesize"}
                   => reqs[r].resp.status = 503
            /\ reqs[r].endpoint = "/health"
                   => reqs[r].resp.health.model_ready = FALSE

\* C2 (amended): while model_ready is false, /speakers and every POST whose
\* body passes validation are answered 503, a POST whose body fails
\* validation is answered 422, and /health reports model_ready false.
C2_NotReadyGating ==
    \A r \in Slots :
        Done(r) /\ reqs[r].svc = "not_ready" =>
            /\ reqs[r].endpoint = "/speakers" => reqs[r].resp.status = 503
            /\ IsPost(reqs[r]) =>
                   reqs[r].resp.status = IF WellFormed(reqs[r].raw) THEN 503 ELSE 422
            /\ reqs[r].endpoint = "/health" =>
                   /\ reqs[r].resp.health.model_ready = FALSE
                   /\ reqs[r].resp.health.status = "loading"

\* a well-formed POST answered 503 while the model is being loaded
C2_Witness ==
    \E r \in Slots :
        /\ Done(r) /\ IsPost(reqs[r]) /\ WellFormed(reqs[r].raw)
        /\ reqs[r].svc = "not_ready" /\ phase = "constructed"
        /\ reqs[r].resp.status = 503

\* C3 (as claimed): a POST rejected for a validation reason (text empty or
\* too long, speaker not registered, speed out of bounds) never had a task
\* enqueued on the executor.
C3_Original ==
    \A r \in Slots :
        /\ Done(r) /\ IsPost(reqs[r])
        /\ \/ reqs[r].resp.status = 422
           \/ /\ reqs[r].resp.status = 400
              /\ reqs[r].resp.detail \in {"Speaker not found", "Text too long"}
        => ~reqs[r].submitted

\* C3 (amended): a POST whose body is rejected (text empty, blank or longer
\* than 1000 as received, speed out of bounds) is answered 422 and no task
\* is enqueued for it; on a ready service a POST with a valid body and an
\* unregistered speaker, or a trimmed text longer than MAX_TEXT_LENGTH, is
\* enqueued and rejected with 400 inside the worker task, before
\* tts_to_file is invoked.
C3_RejectionPoint ==
    \A r \in Slots :
        Done(r) /\ IsPost(reqs[r]) =>
            /\ ~WellFormed(reqs[r].raw) =>
                   /\ reqs[r].resp.status = 422
                   /\ ~reqs[r].submitted /\ ~reqs[r].called
            /\ /\ WellFormed(reqs[r].raw) /\ reqs[r].svc = "ready"
               /\ \/ ~Registered(reqs[r].raw.speaker)
                  \/ TextLen(Strip(reqs[r].raw.text)) > settings.MAX_TEXT_LENGTH
               => /\ reqs[r].resp.status = 400
                  /\ reqs[r].submitted /\ ~reqs[r].called

\* an unregistered speaker rejected with 400 after its task was enqueued
C3_Witness ==
    \E r \in Slots :
        /\ Done(r) /\ IsPost(reqs[r])
        /\ ~Registered(reqs[r].raw.speaker)
        /\ reqs[r].resp.status = 400 /\ reqs[r].submitted

\* C4 (as claimed): on a ready service a POST with an unregistered speaker is
\* answered 400 whatever its text and speed.
C4_Original ==
    \A r \in Slots :
        /\ Done(r) /\ IsPost(reqs[r]) /\ reqs[r].svc = "ready"
        /\ ~Registered(reqs[r].raw.speaker)
        => reqs[r].resp.status = 400

\* C4 (amended): on a ready service a POST with an unregistered speaker is
\* answered 400 when its text and speed pass validation, and 422 otherwise.
C4_UnknownSpeaker ==
    \A r \in Slots :
        /\ Done(r) /\ IsPost(reqs[r]) /\ reqs[r].svc = "ready"
        /\ ~Registered(reqs[r].raw.speaker)
        => reqs[r].resp.status = IF WellFormed(reqs[r].raw) THEN 400 ELSE 422

\* the tests' request: "INVALID-SPEAKER", speed 1.0, answered 400
C4_Witness ==
    \E r \in Slots :
        /\ Done(r) /\ IsPost(reqs[r]) /\ reqs[r].svc = "ready"
        /\ reqs[r].raw.speaker = INVALID_SPEAKER /\ reqs[r].raw.speed = 100
        /\ reqs[r].resp.status = 400

\* C5: a POST whose text is empty or whitespace only is answered 422, and
\* neither a worker task nor a model call is made for it.
C5_BlankText ==
    \A r \in Slots :
        Done(r) /\ IsPost(reqs[r]) /\ Blank(reqs[r].raw.text) =>
            /\ reqs[r].resp.status = 422
            /\ ~reqs[r].submitted /\ ~reqs[r].called

\* a whitespace-only text with a registered speaker rejected on a ready service
C5_Witness ==
    \E r \in Slots :
        /\ Done(r) /\ IsPost(reqs[r]) /\ reqs[r].svc = "ready"
        /\ reqs[r].raw.text # <<>> /\ Blank(reqs[r].raw.text)
        /\ Registered(reqs[r].raw.speaker) /\ SpeedInBounds(reqs[r].raw.speed)
        /\ reqs[r].resp.status = 422

\* C6: a POST whose speed is outside [0.5, 2.0] is answered 422; a speed of
\* exactly 0.5 or 2.0, with a text that passes validation, is not.
C6_SpeedBounds ==
    \A r \in Slots :
        Done(r) /\ IsPost(reqs[r]) =>
            /\ ~SpeedInBounds(reqs[r].raw.speed) => reqs[r].resp.status = 422
            /\ /\ reqs[r].raw.speed \in {50, 200}
               /\ 1 <= TextLen(reqs[r].raw.text) /\ TextLen(reqs[r].raw.text) <= 1000
               /\ ~Blank(reqs[r].raw.text)
               => reqs[r].resp.status # 422

\* speed 2.0 synthesized, on a ready service
C6_Witness ==
    \E r \in Slots :
        /\ Done(r) /\ IsPost(reqs[r])
        /\ reqs[r].raw.speed = 200 /\ reqs[r].resp.status = 200

\* C7 (as claimed): on a ready service whose model and codec do not fail, a
\* POST with a text that is not blank and no longer than the maximum, the
\* MAX_TEXT_LENGTH of the service, a registered speaker and a speed in
\* [0.5, 2.0] is answered 200 with a non-empty payload.
C7_AsClaimed ==
    \A r \in Slots :
        /\ Done(r) /\ IsPost(reqs[r]) /\ reqs[r].svc = "ready"
        /\ ~Blank(reqs[r].raw.text)
        /\ TextLen(reqs[r].raw.text) <= settings.MAX_TEXT_LENGTH
        /\ SpeedInBounds(reqs[r].raw.speed)
        /\ Registered(reqs[r].raw.speaker)
        /\ ~ExternalFailure(reqs[r])
        => /\ reqs[r].resp.status = 200
           /\ reqs[r].resp.body_len > 0
           /\ reqs[r].endpoint = "tts" => reqs[r].resp.media_type = "audio/wav"
           /\ reqs[r].endpoint = "synthesize" =>
                  /\ reqs[r].resp.format = "mp3"
                  /\ reqs[r].resp.speaker = reqs[r].raw.speaker
                  /\ reqs[r].resp.speed = reqs[r].raw.speed

\* C7, for texts of at most 1000 characters as received: on a ready service
\* whose model and codec do not fail, a POST with a
\* text within the length limits and not blank, a registered speaker and a
\* speed in [0.5, 2.0] is answered 200: /tts with audio/wav and a non-empty
\* body, /synthesize with non-empty audio_content, format "mp3" and the
\* request's speaker and speed.
C7_ValidRequestSucceeds ==
    \A r \in Slots :
        /\ Done(r) /\ IsPost(reqs[r]) /\ reqs[r].svc = "ready"
        /\ WellFormed(reqs[r].raw)
        /\ TextLen(Strip(reqs[r].raw.text)) <= settings.MAX_TEXT_LENGTH
        /\ Registered(reqs[r].raw.speaker)
        /\ ~ExternalFailure(reqs[r])
        => /\ reqs[r].resp.status = 200
           /\ reqs[r].resp.body_len > 0
           /\ reqs[r].endpoint = "tts" => reqs[r].resp.media_type = "audio/wav"
           /\ reqs[r].endpoint = "synthesize" =>
                  /\ reqs[r].resp.format = "mp3"
                  /\ reqs[r].resp.speaker = reqs[r].raw.speaker
                  /\ reqs[r].resp.speed = reqs[r].raw.speed

\* /synthesize answered with the base64 MP3 for a padded text
C7_Witness ==
    \E r \in Slots :
        /\ Done(r) /\ reqs[r].endpoint = "synthesize"
        /\ reqs[r].raw.text = <<Ws(1), Ch(5), Ws(2)>>
        /\ reqs[r].resp.status = 200 /\ reqs[r].resp.body_len = B64Len(Mp3Bytes)

\* C8 (as claimed): a text longer than the maximum as received only because
\* of leading or trailing whitespace, with a non-empty trimmed form within
\* the maximum, is accepted by validation.
C8_Original ==
    \A r \in Slots :
        /\ Done(r) /\ IsPost(reqs[r])
        /\ TextLen(reqs[r].raw.text) > 1000
        /\ ~Blank(reqs[r].raw.text)
        /\ TextLen(Strip(reqs[r].raw.text)) <= 1000
        /\ SpeedInBounds(reqs[r].raw.speed)
        => reqs[r].resp.status # 422

\* C8 (amended): emptiness is checked on the trimmed text, but the length
\* bound 1000 is checked on the text as received, before trimming: a text
\* longer than 1000 as received is rejected with 422 even when its trimmed
\* form is within the maximum; a text that is accepted is synthesized from
\* its trimmed form.
C8_LengthBeforeTrim ==
    \A r \in Slots :
        IsPost(reqs[r]) =>
            /\ Done(r) /\ TextLen(reqs[r].raw.text) > 1000
                   => reqs[r].resp.status = 422 /\ ~reqs[r].submitted
            /\ Done(r) /\ Blank(reqs[r].raw.text) => reqs[r].resp.status = 422
            /\ reqs[r].submitted =>
                   /\ reqs[r].text = Strip(reqs[r].raw.text)
                   /\ reqs[r].text # <<>>
                   /\ ~Head(reqs[r].text).ws
                   /\ ~reqs[r].text[Len(reqs[r].text)].ws

\* 1001 characters as received, 999 trimmed, rejected on a ready service
C8_Witness ==
    \E r \in Slots :
        /\ Done(r) /\ IsPost(reqs[r]) /\ reqs[r].svc = "ready"
        /\ TextLen(reqs[r].raw.text) = 1001
        /\ TextLen(Strip(reqs[r].raw.text)) = 999
        /\ SpeedInBounds(reqs[r].raw.speed) /\ Registered(reqs[r].raw.speaker)
        /\ reqs[r].resp.status = 422

\* C9: whenever the model or the codec raises during synthesis, the response
\* is 500 with detail "Synthesis failed" and never carries the exception's
\* own message.
C9_SynthesisErrorsGeneric ==
    \A r \in Slots :
        Done(r) /\ IsPost(reqs[r]) /\ ExternalFailure(reqs[r]) =>
            /\ reqs[r].resp.status = 500
            /\ reqs[r].resp.detail = "Synthesis failed"
            /\ reqs[r].resp.detail # reqs[r].outcome.msg

InPool(r) == reqs[r].pc \in {"queued", "running", "checked", "in_model", "codec"}

\* C11: once executor.shutdown has been called the pool accepts no task; a
\* task in the pool is never dropped, it stays there until its future is
\* done; and shutdown returns only when no task is left in the pool.
C11_ShutdownDrains ==
    [][ /\ \A r \in Slots :
               ~reqs[r].submitted /\ reqs'[r].submitted
                   => ~executor_shutdown /\ ~executor_shutdown'
        /\ \A r \in Slots :
               InPool(r) => InPool(r)' \/ reqs'[r].pc = "finished"
        /\ executor_shutdown => executor_shutdown'
        /\ phase' = "stopped" =>
               /\ queue' = <<>>
               /\ \A r \in Slots : ~InPool(r)'
               /\ executor_shutdown' ]_vars

\* shutdown is waiting while one task runs and another is still queued
C11_Witness ==
    /\ phase = "draining"
    /\ \E r \in Slots : reqs[r].pc = "queued"
    /\ \E r \in Slots : reqs[r].pc = "in_model"

\* the substring before the first '-', or the whole identifier without one
DashAt(s) == {k \in 1..Len(s) : s[k] = "-"}
ExpectedKey(s) ==
    IF DashAt(s) = {} THEN s
    ELSE SubSeq(s, 1, (CHOOSE k \in DashAt(s) : \A m \in DashAt(s) : k <= m) - 1)

IndexIn(seq, x) == CHOOSE i \in 1..Len(seq) : seq[i] = x

\* C12: on a ready service GET /speakers returns the registry in order, its
\* length as total, and groups with distinct keys in which every speaker
\* occurs exactly once, under the key before its first '-' (or its whole
\* identifier), members in registry order; ["EN-US","EN-AU","JP"] gives
\* {"EN": ["EN-US","EN-AU"], "JP": ["JP"]}.
C12_SpeakersGrouping ==
    \A r \in Slots :
        Done(r) /\ reqs[r].endpoint = "/speakers" /\ reqs[r].svc = "ready" =>
            LET rs == reqs[r].resp
                g == rs.languages
                Places == {pl \in (1..Len(g)) \X (1..Len(speakers)) :
                              pl[2] <= Len(g[pl[1]].members)}
            IN  /\ rs.status = 200
                /\ rs.speakers = speakers
                /\ rs.speakers = tts_model.spk2id
                /\ rs.total = Len(speakers)
                /\ \A a, b \in 1..Len(g) : g[a].lang = g[b].lang => a = b
                /\ \A a \in 1..Len(g) : Len(g[a].members) <= Len(speakers)
                /\ \A i \in 1..Len(speakers) :
                       Cardinality({pl \in Places :
                           g[pl[1]].members[pl[2]] = speakers[i]}) = 1
                /\ \A pl \in Places :
                       /\ g[pl[1]].members[pl[2]] \in SeqRange(speakers)
                       /\ g[pl[1]].lang = ExpectedKey(g[pl[1]].members[pl[2]])
                /\ \A pl \in Places : \A k \in 1..(pl[2] - 1) :
                       IndexIn(speakers, g[pl[1]].members[k])
                           < IndexIn(speakers, g[pl[1]].members[pl[2]])
                /\ speakers = <<EN_US, EN_AU, JP>> =>
                       SeqRange(g) = {[lang |-> EN, members |-> <<EN_US, EN_AU>>],
                                      [lang |-> JP, members |-> <<JP>>]}

\* a catalog with an identifier without '-' that is also another's prefix
C12_Witness ==
    \E r \in Slots :
        /\ Done(r) /\ reqs[r].endpoint = "/speakers" /\ reqs[r].svc = "ready"
        /\ speakers = <<JP, EN, EN_US, EN_INDIA>>
        /\ reqs[r].resp.total = 4
        /\ Len(reqs[r].resp.languages) = 3

\* C13: at most MAX_WORKERS tasks are being executed by the pool at any
\* time; a task that waits in the pool is eventually executed, and its
\* request answered.
C13_BoundedPool ==
    /\ [](Cardinality({r \in Slots :
              reqs[r].pc \in {"running", "checked", "in_model", "codec"}})
          <= settings.MAX_WORKERS)
    /\ \A r \in Slots : (reqs[r].pc = "queued") ~> (reqs[r].pc = "running")
    /\ \A r \in Slots : (reqs[r].pc = "queued") ~> (reqs[r].pc = "done")

\* the pool is full and a further request waits in its queue
C13_Witness ==
    /\ Cardinality({r \in Slots : reqs[r].pc = "in_model"}) = settings.MAX_WORKERS
    /\ \E r \in Slots : reqs[r].pc = "queued"

\* C14: the length bound enforced is the configured MAX_TEXT_LENGTH: on a
\* ready service a request that is otherwise valid is accepted when its text
\* is no longer than the configured maximum, and rejected when its trimmed
\* text is longer.
C14_ConfiguredMaxEnforced ==
    \A r \in Slots :
        /\ Done(r) /\ IsPost(reqs[r]) /\ reqs[r].svc = "ready"
        /\ ~Blank(reqs[r].raw.text)
        /\ SpeedInBounds(reqs[r].raw.speed)
        /\ Registered(reqs[r].raw.speaker)
        /\ ~ExternalFailure(reqs[r])
        => /\ TextLen(reqs[r].raw.text) <= settings.MAX_TEXT_LENGTH
                  => reqs[r].resp.status = 200
           /\ TextLen(Strip(reqs[r].raw.text)) > settings.MAX_TEXT_LENGTH
                  => reqs[r].resp.status \in {400, 422}

\* C15: whenever model_ready is true the model is loaded and the global
\* speakers list is the loaded model's catalog; a step of a request handler
\* or of a worker task leaves model_ready, speakers and tts_model as they
\* are; /health says "ok" only with model_ready true and the catalog's size.
C15_ReadyMeansLoaded ==
    /\ [](model_ready => tts_model.loaded /\ speakers = tts_model.spk2id)
    /\ [][(reqs' # reqs \/ queue' # queue)
              => UNCHANGED <<model_ready, speakers, tts_model>>]_vars
    /\ [](\A r \in Slots :
              /\ Done(r) /\ reqs[r].endpoint = "/health"
              /\ reqs[r].resp.health.status = "ok"
              => /\ reqs[r].resp.health.model_ready
                 /\ reqs[r].resp.health.available_speakers = Len(tts_model.spk2id)
                 /\ reqs[r].resp.health.speakers_loaded = (tts_model.spk2id # <<>>))

\* /health answers "ok" with the four speakers of the loaded catalog
C15_Witness ==
    \E r \in Slots :
        /\ Done(r) /\ reqs[r].endpoint = "/health"
        /\ reqs[r].resp.health.status = "ok"
        /\ reqs[r].resp.health.available_speakers = 4
        /\ tts_model.spk2id = <<JP, EN, EN_US, EN_INDIA>>

====
